---- MODULE Spec2Model ----
(***************************************************************************)
(* State-machine model of torbrowser_launcher/common.py (class Common):    *)
(*   - torbrowser12_rename_old_tbb : consolidation of legacy install dirs  *)
(*   - load_mirrors                : mirror list loading                   *)
(*   - load_settings/save_settings : settings persistence and migration    *)
(*   - import_key_and_check_status, import_keys, refresh_keyring           *)
(* Each subsystem has its own specification; the variables of the other    *)
(* subsystems stay at their idle values.                                   *)
(***************************************************************************)
EXTENDS Integers, Sequences, FiniteSets, TLC

VARIABLES
    \* ---- torbrowser12_rename_old_tbb ----
    tbb_dir_exists,   \* paths["tbb"]["dir"].exists()
    entries,          \* directory entries of paths["tbb"]["dir"]: name -> kind
    dir_tbb,          \* paths["tbb"]["dir_tbb"]: "absent", "orig" or the legacy name moved there
    glob_list,        \* the entries glob("tor-browser_*") yields, in its order
    rn_idx,           \* position of the for loop in glob_list
    rn_pc,            \* "start" | "loop" | "done"
    rn_log,           \* messages printed, in order
    rn_visited,       \* legacy directories the loop body has handled, in order
    rn_failed,        \* TRUE once an rmtree or rename raised OSError
    entries0,         \* entries at call time
    dir_tbb0,         \* dir_tbb at call time
    \* ---- load_mirrors ----
    mirrors_txt,      \* paths["mirrors_txt"]: per source file, whether it exists and its raw lines
    mirrors,          \* self.mirrors
    mr_file,          \* position of the srcfile loop
    mr_line,          \* position of the line loop in the open file
    mr_pc,            \* "start" | "open" | "read" | "done"
    \* ---- load_settings / save_settings ----
    tbl_version,          \* self.tbl_version, the running version
    settings_file,        \* paths["settings_file"]: kind and, for a JSON object, its content
    settings_file_pickle, \* paths["settings_file_pickle"]: kind and content
    start_is_file,        \* paths["tbb"]["start"].is_file()
    settings_set,         \* whether self.settings has been assigned
    settings,             \* self.settings
    st_pc,                \* "start" | "json" | "pickle" | "defaults" | "returned" | "raised"
    st_depth,             \* number of load_settings invocations so far
    st_exc,               \* the exception that left load_settings, "" when none
    settings_file0,       \* settings_file at call time
    settings_file_pickle0, \* settings_file_pickle at call time
    \* ---- import_key_and_check_status / import_keys / refresh_keyring ----
    keyring,          \* fingerprints of the keys in paths["gnupg_homedir"]
    signing_keys,     \* paths["signing_keys"]: key name -> content of the key file
    kr_calls,         \* number of calls made so far
    kr_op,            \* the method called last, "" before the first call
    kr_arg,           \* its key argument, "" when it takes none
    kr_status,        \* r.status_code of the last refresh_keyring, 0 otherwise
    kr_ret,           \* what the last call returned: "True" | "False" | "None"
    kr_imported,      \* what import_key_and_check_status returned inside the last call,
                      \* "None" when the call did not invoke it
    kr_engine_ok,     \* whether c.op_import completed without raising in the last call
    kr_reported,      \* result.imports[0].fpr of the last call, <<>> when there is none
    kr_msgs           \* what the last call printed

rn_vars == <<tbb_dir_exists, entries, dir_tbb, glob_list, rn_idx, rn_pc, rn_log,
             rn_visited, rn_failed, entries0, dir_tbb0>>

mr_vars == <<mirrors_txt, mirrors, mr_file, mr_line, mr_pc>>

st_vars == <<tbl_version, settings_file, settings_file_pickle, start_is_file, settings_set,
             settings, st_pc, st_depth, st_exc, settings_file0, settings_file_pickle0>>

kr_vars == <<keyring, signing_keys, kr_calls, kr_op, kr_arg, kr_status, kr_ret, kr_imported,
             kr_engine_ok, kr_reported, kr_msgs>>

vars == <<rn_vars, mr_vars, st_vars, kr_vars>>

\* what each subsystem leaves alone
rn_others == <<mr_vars, st_vars, kr_vars>>
mr_others == <<rn_vars, st_vars, kr_vars>>
st_others == <<rn_vars, mr_vars, kr_vars>>
kr_others == <<rn_vars, mr_vars, st_vars>>

(***************************************************************************)
(* Generic helpers                                                         *)
(***************************************************************************)
Range(s) == {s[i] : i \in 1..Len(s)}

Perms(S) == {s \in [1..Cardinality(S) -> S] : \A i, j \in 1..Cardinality(S) : s[i] = s[j] => i = j}

Count(s, x) == Cardinality({i \in 1..Len(s) : s[i] = x})

(***************************************************************************)
(* torbrowser12_rename_old_tbb                                             *)
(***************************************************************************)
MaxLegacy == 2

LocaleNames == <<"en-US", "de", "fr", "es-ES">>

\* names are token sequences: "tor-browser" followed by a suffix
CanonicalName == <<"tor-browser">>
LegacyNames == {<<"tor-browser", "_", LocaleNames[i]>> : i \in 1..MaxLegacy}
OtherName == <<"tor-browser", ".bak">>
Names == LegacyNames \cup {OtherName}

\* fnmatch of a name against "tor-browser_*"
GlobMatch(n) == Len(n) >= 2 /\ n[1] = "tor-browser" /\ n[2] = "_"

\* Path.glob("tor-browser_*"): the existing entries that match, in directory order
GlobResults == Perms({n \in Names : entries[n] # "absent" /\ GlobMatch(n)})

is_dir(n) == entries[n] = "dir"

\* a variant that drops the existence test of line 174
dir_tbb_exists_unchecked == FALSE

\* line 174: paths["tbb"]["dir_tbb"].exists()
dir_tbb_exists == dir_tbb # "absent"

InitRename ==
    /\ tbb_dir_exists \in BOOLEAN
    /\ entries \in [Names -> {"absent", "dir", "file"}]
    /\ dir_tbb \in {"absent", "orig"}
    /\ (~tbb_dir_exists => dir_tbb = "absent" /\ \A n \in Names : entries[n] = "absent")
    /\ glob_list = <<>>
    /\ rn_idx = 0
    /\ rn_pc = "start"
    /\ rn_log = <<>>
    /\ rn_visited = <<>>
    /\ rn_failed = FALSE
    /\ entries0 = entries
    /\ dir_tbb0 = dir_tbb

IdleRename ==
    /\ tbb_dir_exists = FALSE
    /\ entries = [n \in Names |-> "absent"]
    /\ dir_tbb = "absent"
    /\ glob_list = <<>>
    /\ rn_idx = 0
    /\ rn_pc = "done"
    /\ rn_log = <<>>
    /\ rn_visited = <<>>
    /\ rn_failed = FALSE
    /\ entries0 = entries
    /\ dir_tbb0 = dir_tbb

\* lines 169-171: early return when the install dir is missing, else start the loop
RenameEnter ==
    /\ rn_pc = "start"
    /\ IF ~tbb_dir_exists
       THEN /\ rn_pc' = "done"
            /\ UNCHANGED <<glob_list, rn_idx>>
       ELSE /\ glob_list' \in GlobResults
            /\ rn_idx' = 1
            /\ rn_pc' = "loop"
    /\ UNCHANGED <<tbb_dir_exists, entries, dir_tbb, rn_log, rn_visited, rn_failed,
                   entries0, dir_tbb0>>
    /\ UNCHANGED rn_others

\* lines 172-173: entries that are not directories are skipped
RenameSkip ==
    /\ rn_pc = "loop"
    /\ rn_idx <= Len(glob_list)
    /\ ~is_dir(glob_list[rn_idx])
    /\ rn_idx' = rn_idx + 1
    /\ UNCHANGED <<tbb_dir_exists, entries, dir_tbb, glob_list, rn_pc, rn_log, rn_visited,
                   rn_failed, entries0, dir_tbb0>>
    /\ UNCHANGED rn_others

\* lines 174-187: the canonical directory exists: rmtree the legacy directory
RenameDelete ==
    /\ rn_pc = "loop"
    /\ rn_idx <= Len(glob_list)
    /\ is_dir(glob_list[rn_idx])
    /\ dir_tbb_exists
    /\ \E ok \in BOOLEAN :
         IF ok
         THEN /\ entries' = [entries EXCEPT ![glob_list[rn_idx]] = "absent"]
              /\ rn_log' = Append(rn_log, <<"Deleted", glob_list[rn_idx]>>)
              /\ UNCHANGED rn_failed
         ELSE /\ rn_log' = Append(rn_log, <<"Could not remove", glob_list[rn_idx]>>)
              /\ rn_failed' = TRUE
              /\ UNCHANGED entries
    /\ rn_visited' = Append(rn_visited, glob_list[rn_idx])
    /\ rn_idx' = rn_idx + 1
    /\ UNCHANGED <<tbb_dir_exists, dir_tbb, glob_list, rn_pc, entries0, dir_tbb0>>
    /\ UNCHANGED rn_others

\* lines 189-199: no canonical directory: rename the legacy directory to it
RenameMove ==
    /\ rn_pc = "loop"
    /\ rn_idx <= Len(glob_list)
    /\ is_dir(glob_list[rn_idx])
    /\ ~dir_tbb_exists
    /\ \E ok \in BOOLEAN :
         IF ok
         THEN /\ entries' = [entries EXCEPT ![glob_list[rn_idx]] = "absent"]
              /\ dir_tbb' = glob_list[rn_idx]
              /\ rn_log' = Append(rn_log, <<"Renamed", glob_list[rn_idx]>>)
              /\ UNCHANGED rn_failed
         ELSE /\ rn_log' = Append(rn_log, <<"Could not move", glob_list[rn_idx]>>)
              /\ rn_failed' = TRUE
              /\ UNCHANGED <<entries, dir_tbb>>
    /\ rn_visited' = Append(rn_visited, glob_list[rn_idx])
    /\ rn_idx' = rn_idx + 1
    /\ UNCHANGED <<tbb_dir_exists, glob_list, rn_pc, entries0, dir_tbb0>>
    /\ UNCHANGED rn_others

\* the for loop is exhausted: the method returns
RenameReturn ==
    /\ rn_pc = "loop"
    /\ rn_idx > Len(glob_list)
    /\ rn_pc' = "done"
    /\ UNCHANGED <<tbb_dir_exists, entries, dir_tbb, glob_list, rn_idx, rn_log, rn_visited,
                   rn_failed, entries0, dir_tbb0>>
    /\ UNCHANGED rn_others

NextRename ==
    \/ RenameEnter
    \/ RenameSkip
    \/ RenameDelete
    \/ RenameMove
    \/ RenameReturn

(***************************************************************************)
(* load_mirrors                                                            *)
(***************************************************************************)
MaxLines == 2

Whitespace == {" ", "\t", "\n"}

\* raw lines as the file iterator yields them: characters, newline included
RawLines == { <<"a", "\n">>, <<" ", "a", " ", "\n">>, <<"b", "\n">>, <<"\n">> }

FileContents == UNION {[1..n -> RawLines] : n \in 0..MaxLines}

MissingFile == [exists |-> FALSE, lines |-> <<>>]

SourceFiles == {MissingFile} \cup {[exists |-> TRUE, lines |-> c] : c \in FileContents}

RECURSIVE lstrip(_)
lstrip(s) == IF s # <<>> /\ Head(s) \in Whitespace THEN lstrip(Tail(s)) ELSE s

RECURSIVE rstrip(_)
rstrip(s) == IF s # <<>> /\ s[Len(s)] \in Whitespace THEN rstrip(SubSeq(s, 1, Len(s) - 1)) ELSE s

\* str.strip()
strip(s) == rstrip(lstrip(s))

\* a variant that compares with the last appended mirror only
NotInMirrorsLastOnly(mirror, ms) == ms = <<>> \/ ms[Len(ms)] # mirror

\* line 313: the test that guards the append
NotInMirrors(mirror, ms) == mirror \notin Range(ms)

InitMirrors ==
    /\ mirrors_txt \in [1..2 -> SourceFiles]
    /\ mirrors = <<>>
    /\ mr_file = 0
    /\ mr_line = 0
    /\ mr_pc = "start"

IdleMirrors ==
    /\ mirrors_txt = [i \in 1..2 |-> MissingFile]
    /\ mirrors = <<>>
    /\ mr_file = 0
    /\ mr_line = 0
    /\ mr_pc = "done"

\* line 307-308
MirrorsEnter ==
    /\ mr_pc = "start"
    /\ mirrors' = <<>>
    /\ mr_file' = 1
    /\ mr_pc' = "open"
    /\ UNCHANGED <<mirrors_txt, mr_line>>
    /\ UNCHANGED mr_others

\* lines 309-310, 315-316: open() raises FileNotFoundError, which is passed over
MirrorsMissing ==
    /\ mr_pc = "open"
    /\ mr_file <= Len(mirrors_txt)
    /\ ~mirrors_txt[mr_file].exists
    /\ mr_file' = mr_file + 1
    /\ UNCHANGED <<mirrors_txt, mirrors, mr_line, mr_pc>>
    /\ UNCHANGED mr_others

\* line 310: the file opens
MirrorsOpen ==
    /\ mr_pc = "open"
    /\ mr_file <= Len(mirrors_txt)
    /\ mirrors_txt[mr_file].exists
    /\ mr_line' = 1
    /\ mr_pc' = "read"
    /\ UNCHANGED <<mirrors_txt, mirrors, mr_file>>
    /\ UNCHANGED mr_others

\* lines 311-314: one iteration of the line loop
MirrorsReadLine ==
    /\ mr_pc = "read"
    /\ mr_line <= Len(mirrors_txt[mr_file].lines)
    /\ LET mirror == strip(mirrors_txt[mr_file].lines[mr_line])
       IN  mirrors' = IF NotInMirrors(mirror, mirrors) THEN Append(mirrors, mirror) ELSE mirrors
    /\ mr_line' = mr_line + 1
    /\ UNCHANGED <<mirrors_txt, mr_file, mr_pc>>
    /\ UNCHANGED mr_others

\* end of file: next source file
MirrorsEOF ==
    /\ mr_pc = "read"
    /\ mr_line > Len(mirrors_txt[mr_file].lines)
    /\ mr_file' = mr_file + 1
    /\ mr_pc' = "open"
    /\ UNCHANGED <<mirrors_txt, mirrors, mr_line>>
    /\ UNCHANGED mr_others

\* the srcfile loop is exhausted: the method returns
MirrorsReturn ==
    /\ mr_pc = "open"
    /\ mr_file > Len(mirrors_txt)
    /\ mr_pc' = "done"
    /\ UNCHANGED <<mirrors_txt, mirrors, mr_file, mr_line>>
    /\ UNCHANGED mr_others

NextMirrors ==
    \/ MirrorsEnter
    \/ MirrorsMissing
    \/ MirrorsOpen
    \/ MirrorsReadLine
    \/ MirrorsEOF
    \/ MirrorsReturn

(***************************************************************************)
(* load_settings / save_settings                                           *)
(***************************************************************************)
MaxPrefixes == 2

Fields == {"tbl_version", "installed", "download_over_tor", "tor_socks_address", "mirror"}

Versions == {"1.0.0", "1.2.3"}

default_mirror == "https://dist.torproject.org/"

\* an address is a token sequence: k times "tcp:" followed by host:port
RECURSIVE Prefixed(_, _)
Prefixed(k, host) == IF k = 0 THEN <<host>> ELSE <<"tcp:">> \o Prefixed(k - 1, host)

Addresses == {Prefixed(k, "10.0.0.1:9050") : k \in 0..MaxPrefixes}

\* a dict: its key set and the values of the keys it holds (absent keys hold Blank's value)
Blank == [keys |-> {}, tbl_version |-> "", installed |-> FALSE, download_over_tor |-> FALSE,
          tor_socks_address |-> <<>>, mirror |-> ""]

Canonical(d) == [k \in DOMAIN d |-> IF k = "keys" \/ k \in d.keys THEN d[k] ELSE Blank[k]]

StoredDicts ==
    {Canonical([keys |-> ks, tbl_version |-> v, installed |-> i, download_over_tor |-> TRUE,
                tor_socks_address |-> a, mirror |-> "https://example.org/"]) :
        ks \in SUBSET Fields, v \in Versions, i \in BOOLEAN, a \in Addresses}

\* lines 320-326
default_settings ==
    [keys |-> Fields, tbl_version |-> tbl_version, installed |-> FALSE,
     download_over_tor |-> FALSE, tor_socks_address |-> <<"127.0.0.1:9050">>,
     mirror |-> default_mirror]

\* settings[k] = v
SetItem(d, k, v) == [[d EXCEPT ![k] = v] EXCEPT !.keys = @ \cup {k}]

\* lines 340-342: every key of the defaults that is missing gets the default value
Backfill(d) == [k \in DOMAIN d |-> IF k = "keys" THEN d.keys \cup Fields
                                  ELSE IF k \in d.keys THEN d[k] ELSE default_settings[k]]

\* str.startswith("tcp:")
startswith_tcp(a) == a # <<>> /\ Head(a) = "tcp:"

\* lines 345-347: the slice [4:] behind the startswith test
StripTcp(a) == IF startswith_tcp(a) THEN Tail(a) ELSE a

\* lines 336-352 as one function of the loaded dict
Normalized(d) ==
    LET s1 == SetItem(d, "installed", start_is_file)
        s2 == Backfill(s1)
        s3 == [s2 EXCEPT !.tor_socks_address = StripTcp(@)]
    IN  [s3 EXCEPT !.tbl_version = tbl_version]

\* a variant that never sets the resave flag
ResaveNever(d) == FALSE

\* the resave flag of lines 334-352
Resave(d) ==
    LET s1 == SetItem(d, "installed", start_is_file)
        s2 == Backfill(s1)
    IN  \/ Fields \ s1.keys # {}
        \/ startswith_tcp(s2.tor_socks_address)
        \/ s2.tbl_version # tbl_version

AbsentFile == [kind |-> "absent", data |-> Blank]
DirFile == [kind |-> "dir", data |-> Blank]

\* a legacy record of an older release, written with every field
LegacyExample ==
    [keys |-> Fields, tbl_version |-> "1.0.0", installed |-> TRUE, download_over_tor |-> TRUE,
     tor_socks_address |-> Prefixed(1, "10.0.0.1:9050"), mirror |-> "https://example.org/"]

JsonFiles ==
    {AbsentFile, DirFile, [kind |-> "malformed", data |-> Blank],
     [kind |-> "not_object", data |-> Blank]}
    \cup {[kind |-> "json", data |-> d] : d \in StoredDicts}

PickleFiles == {AbsentFile, DirFile} \cup {[kind |-> "pickle", data |-> d] : d \in StoredDicts}

\* with a readable JSON file the legacy file is never opened: one sample of it is enough
InitSettings ==
    /\ tbl_version \in Versions
    /\ settings_file \in JsonFiles
    /\ settings_file_pickle \in PickleFiles
    /\ (settings_file.kind = "json" =>
          settings_file_pickle \in {AbsentFile, DirFile, [kind |-> "pickle", data |-> LegacyExample]})
    /\ start_is_file \in BOOLEAN
    /\ settings_set = FALSE
    /\ settings = Blank
    /\ st_pc = "start"
    /\ st_depth = 0
    /\ st_exc = ""
    /\ settings_file0 = settings_file
    /\ settings_file_pickle0 = settings_file_pickle

IdleSettings ==
    /\ tbl_version = "1.2.3"
    /\ settings_file = AbsentFile
    /\ settings_file_pickle = AbsentFile
    /\ start_is_file = FALSE
    /\ settings_set = FALSE
    /\ settings = Blank
    /\ st_pc = "returned"
    /\ st_depth = 0
    /\ st_exc = ""
    /\ settings_file0 = settings_file
    /\ settings_file_pickle0 = settings_file_pickle

\* lines 376-379: open(settings_file, "w") and json.dump; what the file is afterwards
SavedFile(d) == [kind |-> "json", data |-> d]

\* open(..., "w") raises IsADirectoryError on a directory
SaveRaises == settings_file.kind = "dir"

\* Common.__init__ line 71: load_settings is called
LoadSettingsCall ==
    /\ st_pc = "start"
    /\ st_pc' = "json"
    /\ st_depth' = 1
    /\ UNCHANGED <<tbl_version, settings_file, settings_file_pickle, start_is_file,
                   settings_set, settings, st_exc, settings_file0, settings_file_pickle0>>
    /\ UNCHANGED st_others

\* lines 328-332: FileNotFoundError / IsADirectoryError are passed over
JsonMissing ==
    /\ st_pc = "json"
    /\ settings_file.kind \in {"absent", "dir"}
    /\ st_pc' = "pickle"
    /\ UNCHANGED <<tbl_version, settings_file, settings_file_pickle, start_is_file,
                   settings_set, settings, st_depth, st_exc, settings_file0,
                   settings_file_pickle0>>
    /\ UNCHANGED st_others

\* line 330: json.load raises JSONDecodeError; line 337: item assignment on a
\* value that is no object raises TypeError; neither is caught
JsonInvalid ==
    /\ st_pc = "json"
    /\ settings_file.kind \in {"malformed", "not_object"}
    /\ st_pc' = "raised"
    /\ st_exc' = IF settings_file.kind = "malformed" THEN "JSONDecodeError" ELSE "TypeError"
    /\ UNCHANGED <<tbl_version, settings_file, settings_file_pickle, start_is_file,
                   settings_set, settings, st_depth, settings_file0, settings_file_pickle0>>
    /\ UNCHANGED st_others

\* lines 333-357: the JSON object is normalised, kept, and saved when it changed
JsonLoaded ==
    /\ st_pc = "json"
    /\ settings_file.kind = "json"
    /\ settings' = Normalized(settings_file.data)
    /\ settings_set' = TRUE
    /\ settings_file' = IF Resave(settings_file.data)
                        THEN SavedFile(Normalized(settings_file.data))
                        ELSE settings_file
    /\ st_pc' = "returned"
    /\ UNCHANGED <<tbl_version, settings_file_pickle, start_is_file, st_depth, st_exc,
                   settings_file0, settings_file_pickle0>>
    /\ UNCHANGED st_others

\* lines 360-364: no legacy file
PickleMissing ==
    /\ st_pc = "pickle"
    /\ settings_file_pickle.kind \in {"absent", "dir"}
    /\ st_pc' = "defaults"
    /\ UNCHANGED <<tbl_version, settings_file, settings_file_pickle, start_is_file,
                   settings_set, settings, st_depth, st_exc, settings_file0,
                   settings_file_pickle0>>
    /\ UNCHANGED st_others

\* lines 361-369: the legacy record is loaded, saved as JSON, the legacy file is
\* unlinked and load_settings runs again
PickleMigrate ==
    /\ st_pc = "pickle"
    /\ settings_file_pickle.kind = "pickle"
    /\ settings' = settings_file_pickle.data
    /\ settings_set' = TRUE
    /\ IF SaveRaises
       THEN /\ st_pc' = "raised"
            /\ st_exc' = "IsADirectoryError"
            /\ UNCHANGED <<settings_file, settings_file_pickle, st_depth>>
       ELSE /\ settings_file' = SavedFile(settings_file_pickle.data)
            /\ settings_file_pickle' = AbsentFile
            /\ st_depth' = st_depth + 1
            /\ st_pc' = "json"
            /\ UNCHANGED st_exc
    /\ UNCHANGED <<tbl_version, start_is_file, settings_file0, settings_file_pickle0>>
    /\ UNCHANGED st_others

\* lines 371-373: the defaults are taken and saved
DefaultsSave ==
    /\ st_pc = "defaults"
    /\ settings' = default_settings
    /\ settings_set' = TRUE
    /\ IF SaveRaises
       THEN /\ st_pc' = "raised"
            /\ st_exc' = "IsADirectoryError"
            /\ UNCHANGED settings_file
       ELSE /\ settings_file' = SavedFile(default_settings)
            /\ st_pc' = "returned"
            /\ UNCHANGED st_exc
    /\ UNCHANGED <<tbl_version, settings_file_pickle, start_is_file, st_depth,
                   settings_file0, settings_file_pickle0>>
    /\ UNCHANGED st_others

NextSettings ==
    \/ LoadSettingsCall
    \/ JsonMissing
    \/ JsonInvalid
    \/ JsonLoaded
    \/ PickleMissing
    \/ PickleMigrate
    \/ DefaultsSave

(***************************************************************************)
(* import_key_and_check_status / import_keys / refresh_keyring             *)
(***************************************************************************)
MaxCalls == 3

MaxKeys == 2

HTTP_OK == 200

StatusCodes == {200, 204, 404}

\* fingerprints are sequences of hex digits; the pinned one is shortened
tor_browser_developers_fingerprint == <<"E", "F">>

\* lines 161-164
fingerprints ==
    [tor_browser_developers |-> tor_browser_developers_fingerprint,
     wkd_tmp |-> tor_browser_developers_fingerprint]

KeyNames == DOMAIN fingerprints

\* the fingerprints the engine may report: the pinned one, another one of the
\* same length, and a longer one that has the pinned one inside
ReportedFprs == {tor_browser_developers_fingerprint, <<"F", "E">>, <<"9", "E", "F">>}

\* a key file: unreadable by the engine (missing, no key data), or the
\* fingerprints of the keys it holds, in order
NoKeyData == [readable |-> FALSE, fprs |-> <<>>]

KeyMaterials ==
    {NoKeyData} \cup
    {[readable |-> TRUE, fprs |-> f] : f \in UNION {[1..n -> ReportedFprs] : n \in 1..MaxKeys}}

\* the packaged key file: genuine, without key data, or replaced by another key
PackagedKeyFiles ==
    {NoKeyData} \cup {[readable |-> TRUE, fprs |-> <<f>>] : f \in ReportedFprs}

\* Python's "needle in haystack" on strings
Contains(needle, haystack) ==
    \E i \in 1..(Len(haystack) - Len(needle) + 1) :
        SubSeq(haystack, i, i + Len(needle) - 1) = needle

\* line 275: the test on the reported fingerprint
FingerprintMatches(key, fpr) == Contains(fingerprints[key], fpr)

\* lines 271-274: c.op_import on a key file and c.op_import_result
op_import(file, kr) ==
    IF file.readable
    THEN [ok |-> TRUE, keyring |-> kr \cup Range(file.fprs), imports |-> file.fprs]
    ELSE [ok |-> FALSE, keyring |-> kr, imports |-> <<>>]

\* lines 263-277
import_key_and_check_status(key, files, kr) ==
    LET result == op_import(files[key], kr) IN
    [keyring |-> result.keyring,
     engine_ok |-> result.ok,
     reported |-> IF result.ok THEN result.imports[1] ELSE <<>>,
     ret |-> IF result.ok /\ FingerprintMatches(key, result.imports[1]) THEN "True" ELSE "False"]

\* a variant that takes only client and server errors as failures
FetchFailedErrorsOnly(status) == status >= 400

\* line 242: the test on the status code
FetchFailed(status) == status # HTTP_OK

InitKeys ==
    /\ keyring = {}
    /\ signing_keys \in [KeyNames -> KeyMaterials]
    /\ signing_keys["tor_browser_developers"] \in PackagedKeyFiles
    /\ signing_keys["wkd_tmp"] = NoKeyData
    /\ kr_calls = 0
    /\ kr_op = ""
    /\ kr_arg = ""
    /\ kr_status = 0
    /\ kr_ret = "None"
    /\ kr_imported = "None"
    /\ kr_engine_ok = FALSE
    /\ kr_reported = <<>>
    /\ kr_msgs = <<>>

IdleKeys ==
    /\ keyring = {}
    /\ signing_keys = [k \in KeyNames |-> NoKeyData]
    /\ kr_calls = 0
    /\ kr_op = ""
    /\ kr_arg = ""
    /\ kr_status = 0
    /\ kr_ret = "None"
    /\ kr_imported = "None"
    /\ kr_engine_ok = FALSE
    /\ kr_reported = <<>>
    /\ kr_msgs = <<>>

\* lines 255-277: a call of import_key_and_check_status(key)
ImportKeyAndCheckStatus ==
    /\ kr_calls < MaxCalls
    /\ \E key \in KeyNames :
         LET r == import_key_and_check_status(key, signing_keys, keyring) IN
         /\ keyring' = r.keyring
         /\ kr_arg' = key
         /\ kr_ret' = r.ret
         /\ kr_imported' = r.ret
         /\ kr_engine_ok' = r.engine_ok
         /\ kr_reported' = r.reported
    /\ kr_op' = "import_key_and_check_status"
    /\ kr_status' = 0
    /\ kr_msgs' = <<>>
    /\ kr_calls' = kr_calls + 1
    /\ UNCHANGED signing_keys
    /\ UNCHANGED kr_others

\* lines 280-303: import_keys, whose key list is ["tor_browser_developers"]
ImportKeys ==
    /\ kr_calls < MaxCalls
    /\ LET r == import_key_and_check_status("tor_browser_developers", signing_keys, keyring) IN
       /\ keyring' = r.keyring
       /\ kr_ret' = r.ret
       /\ kr_imported' = r.ret
       /\ kr_engine_ok' = r.engine_ok
       /\ kr_reported' = r.reported
       /\ kr_msgs' = IF r.ret = "True" THEN <<>>
                     ELSE <<"Could not import key with fingerprint",
                            "Not all keys were imported successfully!">>
    /\ kr_op' = "import_keys"
    /\ kr_arg' = ""
    /\ kr_status' = 0
    /\ kr_calls' = kr_calls + 1
    /\ UNCHANGED signing_keys
    /\ UNCHANGED kr_others

\* lines 215-253: refresh_keyring; the fetch answers with any status and body
RefreshKeyring ==
    /\ kr_calls < MaxCalls
    /\ \E status \in StatusCodes, content \in KeyMaterials :
         /\ kr_status' = status
         /\ IF FetchFailed(status)
            THEN /\ kr_msgs' = <<"Error fetching key, status code", status>>
                 /\ kr_imported' = "None"
                 /\ kr_engine_ok' = FALSE
                 /\ kr_reported' = <<>>
                 /\ UNCHANGED <<keyring, signing_keys>>
            ELSE LET files == [signing_keys EXCEPT !["wkd_tmp"] = content]
                     r == import_key_and_check_status("wkd_tmp", files, keyring)
                 IN  /\ signing_keys' = files
                     /\ keyring' = r.keyring
                     /\ kr_imported' = r.ret
                     /\ kr_engine_ok' = r.engine_ok
                     /\ kr_reported' = r.reported
                     /\ kr_msgs' = IF r.ret = "True" THEN <<"Key imported successfully">>
                                   ELSE <<"Key failed to import">>
    /\ kr_ret' = "None"
    /\ kr_op' = "refresh_keyring"
    /\ kr_arg' = ""
    /\ kr_calls' = kr_calls + 1
    /\ UNCHANGED kr_others

NextKeys ==
    \/ ImportKeyAndCheckStatus
    \/ ImportKeys
    \/ RefreshKeyring

(***************************************************************************)
(* Specifications                                                          *)
(***************************************************************************)
InitSpecRename == InitRename /\ IdleMirrors /\ IdleSettings /\ IdleKeys

InitSpecMirrors == IdleRename /\ InitMirrors /\ IdleSettings /\ IdleKeys

InitSpecSettings == IdleRename /\ IdleMirrors /\ InitSettings /\ IdleKeys

InitSpecKeys == IdleRename /\ IdleMirrors /\ IdleSettings /\ InitKeys

SpecRename ==
    /\ InitSpecRename
    /\ [][NextRename]_vars
    /\ WF_vars(NextRename)

SpecMirrors ==
    /\ InitSpecMirrors
    /\ [][NextMirrors]_vars

SpecKeys ==
    /\ InitSpecKeys
    /\ [][NextKeys]_vars

SpecSettings ==
    /\ InitSpecSettings
    /\ [][NextSettings]_vars
    /\ WF_vars(NextSettings)

(***************************************************************************)
(* Claims about torbrowser12_rename_old_tbb                                *)
(***************************************************************************)
LegacyDirs0 == {n \in LegacyNames : entries0[n] = "dir"}

LastLog == rn_log'[Len(rn_log')]

\* one iteration of the loop body on a legacy directory
C9Step ==
    rn_visited' # rn_visited =>
        LET path == glob_list[rn_idx] IN
        /\ rn_visited' = Append(rn_visited, path)
        /\ entries[path] = "dir"
        /\ rn_pc' = "loop" /\ rn_idx' = rn_idx + 1
        /\ Len(rn_log') = Len(rn_log) + 1
        /\ IF dir_tbb # "absent"
           THEN /\ dir_tbb' = dir_tbb
                /\ \/ entries'[path] = "absent" /\ LastLog = <<"Deleted", path>>
                   \/ entries' = entries /\ LastLog = <<"Could not remove", path>>
           ELSE \/ /\ entries'[path] = "absent" /\ dir_tbb' = path
                   /\ LastLog = <<"Renamed", path>>
                \/ /\ entries' = entries /\ dir_tbb' = dir_tbb
                   /\ LastLog = <<"Could not move", path>>

\* the state the method returns in
C9Done ==
    rn_pc = "done" =>
        /\ \A n \in Names : Count(rn_visited, n) = (IF n \in LegacyDirs0 THEN 1 ELSE 0)
        /\ (dir_tbb0 # "absent" => dir_tbb = dir_tbb0)
        /\ (~rn_failed /\ LegacyDirs0 # {} =>
               /\ dir_tbb # "absent"
               /\ \A n \in LegacyNames : entries[n] # "dir"
               /\ (dir_tbb0 = "absent" => dir_tbb = rn_visited[1]))

\* C9: torbrowser12_rename_old_tbb handles every legacy tor-browser_* directory
\* exactly once and always returns; a directory is deleted when the canonical
\* directory exists at that moment and renamed to it otherwise, a failure is
\* reported and the loop goes on; without failures and with at least one legacy
\* directory the canonical directory exists afterwards, no legacy directory
\* remains, the first one handled became canonical when none existed, and an
\* existing canonical directory is never replaced.
C9_RenameOldTbb == [][C9Step]_vars /\ [](C9Done) /\ <>(rn_pc = "done")

C9_Witness ==
    /\ rn_pc = "done"
    /\ ~rn_failed
    /\ Len(rn_visited) = 2
    /\ dir_tbb0 = "absent"
    /\ dir_tbb = rn_visited[1]
    /\ \A n \in LegacyNames : entries[n] = "absent"

(***************************************************************************)
(* Claims about load_mirrors                                               *)
(***************************************************************************)
RECURSIVE TrimmedFrom(_)
\* the trimmed lines of the source files from position k on, missing files left out
TrimmedFrom(k) ==
    IF k > Len(mirrors_txt) THEN <<>>
    ELSE (IF mirrors_txt[k].exists
          THEN [i \in 1..Len(mirrors_txt[k].lines) |-> strip(mirrors_txt[k].lines[i])]
          ELSE <<>>) \o TrimmedFrom(k + 1)

AllTrimmed == TrimmedFrom(1)

FirstIndex(s, x) == CHOOSE i \in 1..Len(s) : s[i] = x /\ \A j \in 1..(i - 1) : s[j] # x

\* C4: load_mirrors yields each distinct trimmed line of the existing source
\* files exactly once, in order of first occurrence over the files in the given
\* order; a missing file contributes nothing and the load still returns.
C4_MirrorsDedupOrdered ==
    mr_pc = "done" =>
        /\ \A x \in Range(AllTrimmed) : Count(mirrors, x) = 1
        /\ Range(mirrors) \subseteq Range(AllTrimmed)
        /\ \A i, j \in 1..Len(mirrors) :
              i < j => FirstIndex(AllTrimmed, mirrors[i]) < FirstIndex(AllTrimmed, mirrors[j])

C4_Witness ==
    /\ mr_pc = "done"
    /\ mirrors_txt[1].exists /\ mirrors_txt[2].exists
    /\ Len(mirrors) = 2
    /\ Len(AllTrimmed) = 4
    /\ \E i \in 1..2 : mirrors_txt[1].lines[i] \in Range(mirrors_txt[2].lines)

\* C8: the list load_mirrors produces contains no empty string.
C8_NoEmptyMirror == mr_pc = "done" => <<>> \notin Range(mirrors)

(***************************************************************************)
(* Claims about load_settings                                              *)
(***************************************************************************)
\* C2: whenever load_settings returns, the in-memory record holds every field
\* of the defaults, its tor_socks_address does not start with "tcp:" and its
\* tbl_version is the running version.
C2_LoadedRecordNormalized ==
    st_pc = "returned" /\ settings_set =>
        /\ Fields \subseteq settings.keys
        /\ ~(settings.tor_socks_address # <<>> /\ settings.tor_socks_address[1] = "tcp:")
        /\ settings.tbl_version = tbl_version

\* load_settings was called with a legacy record and no JSON settings file
C5Pre == settings_file_pickle0.kind = "pickle" /\ settings_file0.kind = "absent"

Legacy == settings_file_pickle0.data

OnePrefixStripped(a) == IF a # <<>> /\ a[1] = "tcp:" THEN SubSeq(a, 2, Len(a)) ELSE a

\* C5 as stated: after the migration the legacy file is gone, load_settings
\* ran at most twice, and the JSON file holds the legacy record with the "tcp:"
\* prefix stripped, the running version, and every other legacy value kept.
C5_MigrationKeepsLegacyValues ==
    C5Pre /\ st_pc = "returned" =>
        /\ st_depth <= 2
        /\ settings_file_pickle.kind = "absent"
        /\ settings_file.kind = "json"
        /\ settings_file.data.tbl_version = tbl_version
        /\ "tor_socks_address" \in Legacy.keys =>
              settings_file.data.tor_socks_address = OnePrefixStripped(Legacy.tor_socks_address)
        /\ \A f \in Legacy.keys \ {"tbl_version", "tor_socks_address"} :
              f \in settings_file.data.keys /\ settings_file.data[f] = Legacy[f]

\* the legacy record needs no change other than the installed flag
LegacyIsCurrent ==
    /\ Fields \ {"installed"} \subseteq Legacy.keys
    /\ ~(Legacy.tor_socks_address # <<>> /\ Legacy.tor_socks_address[1] = "tcp:")
    /\ Legacy.tbl_version = tbl_version

Defaults(f) ==
    CASE f = "tbl_version" -> tbl_version
      [] f = "installed" -> FALSE
      [] f = "download_over_tor" -> FALSE
      [] f = "tor_socks_address" -> <<"127.0.0.1:9050">>
      [] f = "mirror" -> "https://dist.torproject.org/"

C5Returned ==
    C5Pre /\ st_pc = "returned" =>
        /\ st_depth = 2
        /\ settings_file_pickle.kind = "absent"
        /\ settings_file.kind = "json"
        /\ settings_file.data.tbl_version = tbl_version
        /\ settings_file.data.tor_socks_address =
              (IF "tor_socks_address" \in Legacy.keys
               THEN OnePrefixStripped(Legacy.tor_socks_address)
               ELSE Defaults("tor_socks_address"))
        /\ \A f \in {"download_over_tor", "mirror"} :
              /\ f \in settings_file.data.keys
              /\ settings_file.data[f] = (IF f \in Legacy.keys THEN Legacy[f] ELSE Defaults(f))
        /\ Fields \ {"installed"} \subseteq settings_file.data.keys
        /\ IF LegacyIsCurrent
           THEN /\ ("installed" \in settings_file.data.keys) = ("installed" \in Legacy.keys)
                /\ settings_file.data.installed = Legacy.installed
           ELSE /\ "installed" \in settings_file.data.keys
                /\ settings_file.data.installed = start_is_file

\* C5 (amended): from a legacy record and no JSON file, load_settings re-runs
\* itself exactly once, never raises and returns; on return the legacy file is
\* gone and the JSON file holds the running version, the address with one
\* "tcp:" prefix stripped, download_over_tor and mirror as in the legacy record
\* (defaults where the legacy record lacks a field), and as installed the live
\* start-file check when the record had to be re-saved, else the legacy value.
C5_MigrationAmended ==
    /\ [](C5Pre => st_pc # "raised" /\ st_depth <= 2)
    /\ [](C5Returned)
    /\ [](C5Pre => <>(st_pc = "returned"))

C5_Witness ==
    /\ C5Pre
    /\ st_pc = "returned"
    /\ st_depth = 2
    /\ Legacy.keys = Fields
    /\ Legacy.tbl_version = "1.0.0"
    /\ Legacy.tor_socks_address = <<"tcp:", "10.0.0.1:9050">>
    /\ settings_file.data.tor_socks_address = <<"10.0.0.1:9050">>
    /\ settings_file_pickle.kind = "absent"

\* C6: a missing or malformed settings file is treated as absent: load_settings
\* does not raise and returns with a complete record in memory and a JSON
\* settings file on disk.
C6_MalformedTreatedAsAbsent ==
    settings_file0.kind \in {"absent", "malformed", "not_object"} =>
        /\ st_pc # "raised"
        /\ (st_pc = "returned" => Fields \subseteq settings.keys /\ settings_file.kind = "json")

(***************************************************************************)
(* Claims about the keyring                                                *)
(***************************************************************************)
\* C1: import_key_and_check_status(key) returns True exactly when the engine's
\* import completed without error and the fingerprint reported for the first
\* imported key equals the pinned fingerprint of that key name; otherwise False.
C1_ImportTrueIffExactFingerprint ==
    kr_op = "import_key_and_check_status" =>
        /\ kr_ret \in {"True", "False"}
        /\ (kr_ret = "True") = (kr_engine_ok /\ kr_reported = fingerprints[kr_arg])

\* a call of refresh_keyring whose fetch did not answer 200
C3Step ==
    kr_calls' = kr_calls + 1 /\ kr_op' = "refresh_keyring" /\ kr_status' # 200 =>
        /\ keyring' = keyring
        /\ signing_keys' = signing_keys
        /\ kr_imported' = "None"
        /\ kr_ret' # "True"
        /\ kr_msgs' = <<"Error fetching key, status code", kr_status'>>

\* C3: when the fetch of refresh_keyring answers with a status other than 200,
\* refresh_keyring reports the failure, leaves the keyring and the scratch key
\* file as they are and does not call import_key_and_check_status.
C3_RefreshNon200LeavesKeyring == [][C3Step]_vars

C3_Witness ==
    /\ kr_op = "refresh_keyring"
    /\ kr_status = 404
    /\ keyring # {}
    /\ signing_keys["wkd_tmp"].readable

\* C7: on status 200 refresh_keyring returns the outcome of the import: true
\* exactly when import_key_and_check_status("wkd_tmp") succeeded, else false.
C7_RefreshReturnsImportOutcome ==
    kr_op = "refresh_keyring" /\ kr_status = 200 =>
        /\ kr_imported \in {"True", "False"}
        /\ kr_ret = kr_imported

PinnedFingerprints == {fingerprints[k] : k \in KeyNames}

\* C10: after any sequence of import_keys, import_key_and_check_status and
\* refresh_keyring calls the keyring holds only keys whose fingerprint equals a
\* pinned fingerprint.
C10_KeyringOnlyPinned == keyring \subseteq PinnedFingerprints

====
